---------------------------- MODULE Spec2Model ----------------------------
(***************************************************************************)
(* A model of keyrot's key pool: the request queue and its single worker,  *)
(* the retry/rotation executor, the weighted round-robin selector, the     *)
(* token bucket, the quota tracker, the circuit breaker and the pool's     *)
(* operator calls.                                                         *)
(*                                                                         *)
(* The program runs on a JavaScript event loop: code between two awaits    *)
(* runs to completion.  The only await of the dispatch path that waits     *)
(* for the outside world is `await request.execute(key)` in                *)
(* Executor.executeRequest; everything the worker does between two such    *)
(* awaits is one step of the model (ExecLoop / AfterCallback / ProcLoop    *)
(* below compute it).                                                      *)
(*                                                                         *)
(* Time is in milliseconds.  Tokens are counted in thousandths of a token  *)
(* so that the refill `elapsed/1000 * rps` stays in the integers.          *)
(***************************************************************************)
EXTENDS Integers, Sequences, FiniteSets, TLC

(* ------------------------------ bounds -------------------------------- *)
\* Requests submitted through execute() in one behaviour.
MaxRequests == 3
\* Key ids that exist; the pool is constructed with ids 1..InitialKeys and
\* addKey registers the next unused id.
NumKeyIds == 3
InitialKeys == 2
\* Operator calls (addKey, removeKey, openCircuit, closeCircuit, resetQuota,
\* shutdown) in one behaviour.
MaxOps == 1
\* Calls of the caller's function that end otherwise than in a success
\* (rate-limited, error, thrown) in one behaviour.
MaxFaults == 2
\* The clock stops at MaxTime.
MaxTime == 1000
\* PoolConfig values of the modelled pool.
DefaultMaxWaitMs == 1000
FailureThreshold == 2
ResetTimeoutMs == 1000

\* Amounts by which the clock advances in one step.
TimeSteps == {500}
\* null / undefined / not configured.
NoValue == 0 - 1
\* maxWaitMs given to the r-th execute(): requests alternate between a
\* per-call value and the pool's default.
MaxWaitChoices(r) == IF r % 2 = 1 THEN {500} ELSE {NoValue}
\* PoolConfig.maxQueueSize.
MaxQueueSizeChoices == {2, 3}
\* PoolConfig.maxRetries.
MaxRetriesChoices == {NoValue, 1}
\* The pool configurations: a bounded retry count with the smaller queue,
\* the default retry count with the larger one.
PoolConfigChoices ==
  {c \in [maxRetries : MaxRetriesChoices, maxQueueSize : MaxQueueSizeChoices] :
     (c.maxRetries = NoValue)
       = (\A n \in MaxQueueSizeChoices : n <= c.maxQueueSize)}
\* What getRetryAfter yields for a rate-limited response, in seconds.
RetryAfterChoices == {NoValue, 0, 1}
\* What getQuotaRemaining yields for a successful response.
RemainingChoices == {NoValue, 0, 1}
\* The quotaUsed that storage holds under quota:<id> when addKey registers
\* the key (NoValue: nothing stored).
StoredChoices == {NoValue, 0, 1}
\* PoolConfig.warningThreshold, in hundredths.
WarningThresholdPct == 50

\* rateLimitedUntil / circuitOpenUntil is null.
NoTime == 0 - 1
\* selectKey returned null; no request is being processed.
NoKey == 0
NoReq == 0

KeyIds == 1..NumKeyIds
ReqIds == 1..MaxRequests

Min(a, b) == IF a <= b THEN a ELSE b
Max(a, b) == IF a >= b THEN a ELSE b

(* ------------------------- key configurations ------------------------- *)
\* KeyConfig.rps (0: not configured), KeyConfig.quota and KeyConfig.weight of
\* the keys the model registers.
rpsOf(id) == CASE id = 1 -> 1 [] id = 3 -> 2 [] OTHER -> 0
quotaTypeOf(id) ==
  CASE id = 3 -> "monthly" [] id = 1 -> "total" [] OTHER -> "unlimited"
quotaLimitOf(id) == IF id = 1 THEN 2 ELSE 1
weightOf(id) == IF id = 2 THEN 2 ELSE 1

VARIABLES
  now,            \* Date.now()
  maxRetriesCfg,  \* PoolConfig.maxRetries
  maxSize,        \* RequestQueue.maxSize
  states,         \* pool.ts `states`: the registered key ids, in order
  ks,             \* key id -> its KeyState
  currentIndex,   \* KeySelector.currentIndex
  queue,          \* RequestQueue.queue: request ids, head first
  reqs,           \* request id -> [queuedAt, maxWaitMs] of its QueuedRequest
  outcome,        \* request id -> how its promise was settled
  processing,     \* RequestQueue.processing
  timeoutChecker, \* RequestQueue.timeoutCheckerInterval is set
  tickDue,        \* the interval fires before the clock advances again
  exec,           \* the frame of executeRequest suspended at its await
  nextReq,        \* the id the next execute() gets
  nextKey,        \* the id the next addKey() registers
  opsLeft,        \* operator calls left
  faultsLeft,     \* unsuccessful calls left
  boot,           \* initPromise: "loading", "loaded" or "failed"
  awaiting,       \* the execute() calls suspended at `await initPromise`
  throwing,       \* the configured hooks that throw when called
  adapter,        \* config.storage: "memory" (the default) or "docker"
  keyError,       \* what createKeyPool or the last addKey threw, or "none"
  writes,         \* key id -> the values of its storage.set calls under way
  picks,          \* the keys that the selectKey calls made on their own chose
  excludeIds,     \* the excludeIds of the last of these calls
  stats,          \* the KeyStats that the last getKeyStats returned
  month,          \* the UTC month of Date.now(), counted from construction
  health,         \* what the last getHealth / calculateStatus call returned
  stored,         \* key id -> the quotaUsed storage holds under quota:<id>
  loading,        \* key id -> the quotaUsed a loadState in progress has read
  \* ---- history: what happened, kept for the properties ----
  shut,           \* shutdown() has been called
  afterShut,      \* requests submitted after shutdown()
  dispatchLog,    \* requests handed to the executor, in order
  sel,            \* the key's state at the last selection that led to a call
  rlDeadline,     \* key id -> now + retryAfter*1000 of its last 429
  waited,         \* request id -> waitedMs of its QueueTimeoutError
  fullErr,        \* fields of the last QueueFullError
  poolSeen,       \* key ids registered at some time while exec.req runs
  callTimes,      \* key id -> the times of the calls made with it (rps keys)
  openedAt,       \* key id -> when its circuit, now open, was opened
  warnings,       \* key id -> onWarning calls since its quota was last reset
  allExhausted,   \* request id -> onAllKeysExhausted calls while it was run
  workers,        \* the processNext loops begun and not ended
  inFlight        \* the calls of the caller's function made and not ended

vars == <<now, maxRetriesCfg, maxSize, states, ks, currentIndex, queue, reqs, outcome,
          processing, timeoutChecker, tickDue, exec, nextReq, nextKey, opsLeft,
          faultsLeft, boot, awaiting, throwing, adapter, keyError, writes, picks, excludeIds,
          stats, month, health,
          stored, loading, shut, afterShut, dispatchLog, sel, rlDeadline, waited, fullErr,
          poolSeen, callTimes, openedAt, warnings, allExhausted, workers,
          inFlight>>

(* ------------------------------ KeyState ------------------------------ *)
\* pool.ts createKeyState.  Two fields are not KeyState's: `warned` is
\* whether QuotaTracker.warnedKeys has the key's id, and `fired` lists the
\* hooks called with the key in the present step.
createKeyState(id) ==
  [quotaUsed |-> 0,
   periodStart |-> month,
   rateLimitedUntil |-> NoTime,
   circuitState |-> "closed",
   circuitOpenUntil |-> NoTime,
   consecutiveFailures |-> 0,
   tokens |-> rpsOf(id) * 1000,
   lastTokenRefill |-> now,
   warned |-> FALSE,
   fired |-> <<>>]

\* The state kept for an id that is not registered.
NoState ==
  [quotaUsed |-> 0, periodStart |-> 0, rateLimitedUntil |-> NoTime,
   circuitState |-> "closed",
   circuitOpenUntil |-> NoTime, consecutiveFailures |-> 0, tokens |-> 0,
   lastTokenRefill |-> 0, warned |-> FALSE, fired |-> <<>>]

InPool(id) == \E i \in 1..Len(states) : states[i] = id

\* How many times a hook was called with the key in the present step.
timesFired(k, hook) == Cardinality({i \in 1..Len(k.fired) : k.fired[i] = hook})

\* A hook called with the key between k0 and k1 threw.
threw(k0, k1) == \E h \in throwing : timesFired(k1, h) > timesFired(k0, h)

(* --------------------------- CircuitBreaker --------------------------- *)
\* checkTransition(state), and one that leaves the timer of the circuit it
\* makes half-open.
checkTransitionKeepTimer(k) ==
  IF k.circuitState = "open" /\ k.circuitOpenUntil # NoTime
     /\ now >= k.circuitOpenUntil
  THEN [k EXCEPT !.circuitState = "half-open"]
  ELSE k

checkTransition(k) ==
  IF k.circuitState = "open" /\ k.circuitOpenUntil # NoTime
     /\ now >= k.circuitOpenUntil
  THEN [k EXCEPT !.circuitState = "half-open", !.circuitOpenUntil = NoTime]
  ELSE k

\* CircuitBreaker.openCircuit, and one that notifies whenever it is called.
openCircuitNotifyAlways(k) ==
  [k EXCEPT !.circuitState = "open", !.circuitOpenUntil = now + ResetTimeoutMs,
            !.fired = Append(@, "onKeyCircuitOpen")]

openCircuit(k) ==
  LET wasOpen == k.circuitState = "open"
  IN [k EXCEPT !.circuitState = "open",
               !.circuitOpenUntil = now + ResetTimeoutMs,
               !.fired = IF ~wasOpen THEN Append(@, "onKeyCircuitOpen") ELSE @]

recordFailure(k) ==
  LET k1 == [k EXCEPT !.consecutiveFailures = @ + 1]
  IN IF k1.consecutiveFailures >= FailureThreshold THEN openCircuit(k1) ELSE k1

recordSuccess(k) ==
  LET k1 == [k EXCEPT !.consecutiveFailures = 0]
  IN IF k1.circuitState = "half-open"
     THEN [k1 EXCEPT !.circuitState = "closed", !.circuitOpenUntil = NoTime]
     ELSE k1

\* forceClose(state), and one that keeps the count of failures.
forceCloseKeepCount(k) ==
  [k EXCEPT !.circuitState = "closed", !.circuitOpenUntil = NoTime]

forceClose(k) ==
  [k EXCEPT !.circuitState = "closed", !.circuitOpenUntil = NoTime,
            !.consecutiveFailures = 0]

forceOpen(k) == openCircuit(k)

(* ----------------------------- RateLimiter ---------------------------- *)
\* getAvailableTokens(state) of a key with rps, and one without the cap.
getUncappedTokens(id, k) == k.tokens + (now - k.lastTokenRefill) * rpsOf(id)

getAvailableTokens(id, k) ==
  Min(rpsOf(id) * 1000, k.tokens + (now - k.lastTokenRefill) * rpsOf(id))

hasCapacity(id, k) == rpsOf(id) = 0 \/ getAvailableTokens(id, k) >= 1000

refillTokens(id, k) ==
  IF rpsOf(id) = 0 THEN k
  ELSE [k EXCEPT !.tokens = getAvailableTokens(id, k), !.lastTokenRefill = now]

\* tryConsume: whether it returns true, and the state it leaves.
tryConsumeOk(id, k) == rpsOf(id) = 0 \/ refillTokens(id, k).tokens >= 1000

\* tryConsume, and one that takes no token.
tryConsumeFree(id, k) == refillTokens(id, k)

tryConsume(id, k) ==
  IF rpsOf(id) = 0 THEN k
  ELSE LET k1 == refillTokens(id, k)
       IN IF k1.tokens >= 1000 THEN [k1 EXCEPT !.tokens = @ - 1000] ELSE k1

\* RateLimiter.reset(state)
resetTokens(id, k) ==
  IF rpsOf(id) = 0 THEN k
  ELSE [k EXCEPT !.tokens = rpsOf(id) * 1000, !.lastTokenRefill = now]

(* ----------------------------- QuotaTracker --------------------------- *)
\* QuotaTracker.reset(state)
resetQuotaState(k) ==
  [k EXCEPT !.quotaUsed = 0, !.periodStart = month, !.warned = FALSE]

\* checkPeriodReset finds that a new period has begun: a monthly key whose
\* periodStart lies in an earlier month.
periodEnded(id, k) == quotaTypeOf(id) = "monthly" /\ month > k.periodStart

checkPeriodReset(id, k) ==
  IF periodEnded(id, k) THEN resetQuotaState(k) ELSE k

\* hasQuota and getRemaining answer for the period that checkPeriodReset
\* leaves.  In the specifications that dispatch no month begins, so the key
\* states that selection reads are left in their period.
hasQuota(id, k) ==
  quotaTypeOf(id) = "unlimited"
    \/ checkPeriodReset(id, k).quotaUsed < quotaLimitOf(id)

\* Infinity, the quotaRemaining of an unlimited key.
Infinity == 0 - 2

getRemaining(id, k) ==
  IF quotaTypeOf(id) = "unlimited" THEN Infinity
  ELSE Max(0, quotaLimitOf(id) - checkPeriodReset(id, k).quotaUsed)

\* QuotaTracker.increment(state), and one that counts nothing.
incrementNothing(id, k) == k

\* getUsagePercent(state) >= warningThreshold
overThreshold(id, k) ==
  k.quotaUsed * 100 >= WarningThresholdPct * quotaLimitOf(id)

\* ... and one that warns without looking at warnedKeys.
incrementWarnAgain(id, k) ==
  IF quotaTypeOf(id) = "unlimited" THEN k
  ELSE LET k1 == [k EXCEPT !.quotaUsed = @ + 1]
           k2 == IF overThreshold(id, k1)
                 THEN [k1 EXCEPT !.warned = TRUE,
                                 !.fired = Append(@, "onWarning")]
                 ELSE k1
       IN IF k2.quotaUsed >= quotaLimitOf(id)
          THEN [k2 EXCEPT !.fired = Append(@, "onKeyExhausted")]
          ELSE k2

\* A hook that throws ends increment where it is called.
increment(id, k) ==
  IF quotaTypeOf(id) = "unlimited" THEN k
  ELSE LET k1 == [checkPeriodReset(id, k) EXCEPT !.quotaUsed = @ + 1]
           k2 == IF overThreshold(id, k1) /\ ~k1.warned
                 THEN [k1 EXCEPT !.warned = TRUE,
                                 !.fired = Append(@, "onWarning")]
                 ELSE k1
       IN IF k2.quotaUsed >= quotaLimitOf(id) /\ ~threw(k1, k2)
          THEN [k2 EXCEPT !.fired = Append(@, "onKeyExhausted")]
          ELSE k2

\* QuotaTracker.syncFromResponse, and one that always takes the response's
\* figure.
syncOverwrite(id, k, remaining) ==
  IF quotaTypeOf(id) = "unlimited" THEN k
  ELSE [k EXCEPT !.quotaUsed = quotaLimitOf(id) - remaining]

syncFromResponse(id, k, remaining) ==
  IF quotaTypeOf(id) = "unlimited" THEN k
  ELSE LET newUsed == quotaLimitOf(id) - remaining
       IN IF newUsed > k.quotaUsed THEN [k EXCEPT !.quotaUsed = newUsed] ELSE k

(* ------------------------------ KeySelector --------------------------- *)
\* buildWeightedList(states), and one that lists every key once.
buildUnweightedList(s) == s

RECURSIVE buildWeightedList(_)
buildWeightedList(s) ==
  IF s = <<>> THEN <<>>
  ELSE [i \in 1..weightOf(Head(s)) |-> Head(s)] \o buildWeightedList(Tail(s))

\* isKeyAvailable without its circuit check.
isKeyAvailableIgnoringCircuit(id, k) ==
  LET k1 == checkTransition(k)
  IN /\ hasQuota(id, k1)
     /\ hasCapacity(id, k1)
     /\ ~(k1.rateLimitedUntil # NoTime /\ k1.rateLimitedUntil > now)

isKeyAvailable(id, k) ==
  LET k1 == checkTransition(k)
  IN /\ k1.circuitState # "open"
     /\ hasQuota(id, k1)
     /\ hasCapacity(id, k1)
     /\ ~(k1.rateLimitedUntil # NoTime /\ k1.rateLimitedUntil > now)

\* What a call of isKeyAvailable leaves of the state it reads: the circuit's
\* lazy transition.
touched(k) == checkTransition(k)

\* selectKey's for loop over the weighted list W from its i-th turn, the
\* cursor being idx when selectKey was called: the key returned (NoKey:
\* null), the cursor and the key states it leaves.  An excluded key is
\* skipped unread; isKeyAvailable leaves its lazy transition in the state of
\* every key it reads.
RECURSIVE scan(_, _, _, _, _)
scan(W, kst, idx, excluded, i) ==
  IF i >= Len(W) THEN [key |-> NoKey, currentIndex |-> idx, ks |-> kst]
  ELSE IF W[(((idx % Len(W)) + i) % Len(W)) + 1] \in excluded
  THEN scan(W, kst, idx, excluded, i + 1)
  ELSE IF isKeyAvailable(W[(((idx % Len(W)) + i) % Len(W)) + 1],
                         kst[W[(((idx % Len(W)) + i) % Len(W)) + 1]])
  THEN [key |-> W[(((idx % Len(W)) + i) % Len(W)) + 1],
        currentIndex |-> (((idx % Len(W)) + i) % Len(W)) + 1,
        ks |-> [kst EXCEPT ![W[(((idx % Len(W)) + i) % Len(W)) + 1]] =
                             touched(@)]]
  ELSE scan(W,
            [kst EXCEPT ![W[(((idx % Len(W)) + i) % Len(W)) + 1]] = touched(@)],
            idx, excluded, i + 1)

\* selectKey(states, excludeIds), and one that does not look at excludeIds.
selectKeyOfAll(kst, idx, excluded) ==
  IF buildWeightedList(states) = <<>>
  THEN [key |-> NoKey, currentIndex |-> idx, ks |-> kst]
  ELSE scan(buildWeightedList(states), kst, idx, {}, 0)

selectKey(kst, idx, excluded) ==
  IF buildWeightedList(states) = <<>>
  THEN [key |-> NoKey, currentIndex |-> idx, ks |-> kst]
  ELSE scan(buildWeightedList(states), kst, idx, excluded, 0)

\* getAvailabilityBreakdown reads the circuit of every registered key.
getAvailabilityBreakdown(kst) ==
  [id \in KeyIds |-> IF InPool(id) THEN touched(kst[id]) ELSE kst[id]]

(* ------------------------- Executor and worker ------------------------ *)
IdleExec ==
  [req |-> NoReq, key |-> NoKey, tried |-> {}, retryCount |-> 0,
   lastError |-> "none", calls |-> <<>>]

NoSel ==
  [key |-> NoKey, at |-> 0, circuitState |-> "closed", quotaUsed |-> 0,
   rateLimitedUntil |-> NoTime, tokens |-> 0, lastTokenRefill |-> 0,
   tokensAfter |-> 0]

\* Executor.maxRetries, as the constructor and updateStates set it.
maxRetries == IF maxRetriesCfg = NoValue THEN Len(states) ELSE maxRetriesCfg

\* What the worker reads and writes between two awaits; no hook has been
\* called yet in the step that begins.
Worker ==
  [queue |-> queue, reqs |-> reqs,
   ks |-> [id \in KeyIds |-> [ks[id] EXCEPT !.fired = <<>>]],
   currentIndex |-> currentIndex,
   outcome |-> outcome, processing |-> processing,
   timeoutChecker |-> timeoutChecker, tickDue |-> tickDue, exec |-> exec,
   dispatchLog |-> dispatchLog, sel |-> sel,
   rlDeadline |-> rlDeadline, waited |-> waited, poolSeen |-> poolSeen,
   callTimes |-> callTimes, stored |-> stored, loading |-> loading,
   openedAt |-> openedAt, warnings |-> warnings,
   allExhausted |-> allExhausted, workers |-> workers,
   inFlight |-> inFlight]

\* request.resolve / request.reject: a promise is settled once.
settle(w, r, how) ==
  IF w.outcome[r] = "pending" THEN [w EXCEPT !.outcome[r] = how] ELSE w

\* A QueuedRequest that has left the queue: its queuedAt is not read again.
left(rq, r) == [rq EXCEPT ![r].queuedAt = 0]

\* isTimedOut(request), and one for which no request is ever late.
isNeverTimedOut(req) == FALSE

isTimedOut(req) == now - req.queuedAt >= req.maxWaitMs

estimateRetryAfter(q) == Max(1000, Len(q) * 1000)

\* A key state that is no longer registered is dropped once no frame holds it.
release(w) ==
  [w EXCEPT !.ks = [id \in KeyIds |->
                      IF InPool(id) \/ id = w.exec.key THEN @[id] ELSE NoState],
            !.rlDeadline = [id \in KeyIds |->
                              IF InPool(id) \/ id = w.exec.key THEN @[id]
                              ELSE NoTime],
            !.callTimes = [id \in KeyIds |->
                             IF InPool(id) \/ id = w.exec.key THEN @[id]
                             ELSE <<>>],
            !.stored = [id \in KeyIds |->
                          IF InPool(id) \/ id = w.exec.key THEN @[id]
                          ELSE NoValue],
            !.loading = [id \in KeyIds |->
                           IF InPool(id) \/ id = w.exec.key THEN @[id]
                           ELSE NoValue],
            !.warnings = [id \in KeyIds |->
                            IF InPool(id) \/ id = w.exec.key THEN @[id]
                            ELSE 0]]

\* triedKeys.add(id), and a loop that forgets the keys it tried.
keepTried(tried, id) == tried

addTried(tried, id) == tried \cup {id}

RECURSIVE ExecLoop(_), ProcLoop(_)

\* processNext after `await this.processCallback(request)`: shift, loop.
AfterCallback(w) ==
  ProcLoop(release([w EXCEPT !.queue = IF @ = <<>> THEN @ ELSE Tail(@),
                             !.reqs = IF w.queue = <<>> THEN @
                                      ELSE left(@, Head(w.queue)),
                             !.exec = IdleExec,
                             !.sel = NoSel,
                             !.poolSeen = {}]))

\* executeRequest after its loop: reject with lastError, else with
\* AllKeysExhaustedError.
rejectExhausted(w) ==
  IF w.exec.lastError # "none"
  THEN AfterCallback(settle(w, w.exec.req, w.exec.lastError))
  ELSE AfterCallback(settle([w EXCEPT !.ks = getAvailabilityBreakdown(@)],
                            w.exec.req, "exhausted"))

\* The no-key branch of executeRequest after its call of onAllKeysExhausted:
\* break, and the rejection; a hook that throws leaves executeRequest, and
\* processNext shifts the request, which nobody settles.
noKey(w) ==
  IF "onAllKeysExhausted" \in throwing THEN AfterCallback(w)
  ELSE rejectExhausted(w)

\* executeRequest with the key id it selected, whose state was k0 when
\* selectKey returned it and whose entry in tried is made (w1): tryConsume,
\* then the call of the caller's function, or the next turn of the loop.
consumed(w1, id, k0) ==
  IF ~tryConsumeOk(id, k0)
  THEN ExecLoop([w1 EXCEPT !.exec.retryCount = @ + 1])
  ELSE [w1 EXCEPT
          !.exec.key = id,
          !.exec.calls = Append(@, id),
          !.inFlight = @ + 1,
          !.callTimes[id] = IF rpsOf(id) > 0 THEN Append(@, now) ELSE @,
          !.sel = [key |-> id, at |-> now,
                   circuitState |-> k0.circuitState,
                   quotaUsed |-> k0.quotaUsed,
                   rateLimitedUntil |-> k0.rateLimitedUntil,
                   tokens |-> k0.tokens,
                   lastTokenRefill |-> k0.lastTokenRefill,
                   tokensAfter |-> w1.ks[id].tokens]]

\* executeRequest with what selectKey returned (s).
selected(w, s) ==
  IF s.key = NoKey
  THEN noKey([w EXCEPT !.ks = getAvailabilityBreakdown(s.ks),
                       !.exec.lastError = "exhausted",
                       !.allExhausted[w.exec.req] = @ + 1])
  ELSE consumed([w EXCEPT
                   !.ks = [s.ks EXCEPT ![s.key] = tryConsume(s.key, @)],
                   !.currentIndex = s.currentIndex,
                   !.exec.tried = addTried(@, s.key)],
                s.key, s.ks[s.key])

\* executeRequest from the head of its while loop to its next await (the
\* call of the caller's function) or to its return.
ExecLoop(w) ==
  IF w.exec.retryCount >= maxRetries THEN rejectExhausted(w)
  ELSE selected(w, selectKey(w.ks, w.currentIndex, w.exec.tried))

\* The request the worker takes from a non-empty queue: this.queue[0]; and a
\* worker that takes the newest one.
lastRequest(q) == q[Len(q)]

nextRequest(q) == Head(q)

\* processNext's while loop, from its head.
ProcLoop(w) ==
  IF w.queue = <<>>
  THEN [w EXCEPT !.processing = FALSE, !.timeoutChecker = FALSE,
                 !.tickDue = FALSE, !.workers = @ - 1]
  ELSE
    LET r == nextRequest(w.queue)
    IN IF isTimedOut(w.reqs[r])
       THEN ProcLoop([settle(w, r, "timeout") EXCEPT
                        !.queue = Tail(@),
                        !.reqs = left(@, r),
                        !.waited[r] = now - w.reqs[r].queuedAt])
       ELSE ExecLoop([w EXCEPT
                        !.exec = [IdleExec EXCEPT !.req = r],
                        !.dispatchLog = Append(@, r),
                        !.poolSeen = {states[i] : i \in 1..Len(states)}])

\* processNext, and one that does not look at `processing`.
processNextUnguarded(w) ==
  IF w.queue = <<>> THEN w
  ELSE ProcLoop([w EXCEPT !.processing = TRUE, !.workers = @ + 1])

processNext(w) ==
  IF w.processing \/ w.queue = <<>> THEN w
  ELSE ProcLoop([w EXCEPT !.processing = TRUE, !.workers = @ + 1])

\* The variables take the worker's result.
Install(w) ==
  /\ queue' = w.queue
  /\ reqs' = w.reqs
  /\ ks' = w.ks
  /\ currentIndex' = w.currentIndex
  /\ outcome' = w.outcome
  /\ processing' = w.processing
  /\ timeoutChecker' = w.timeoutChecker
  /\ tickDue' = w.tickDue
  /\ exec' = w.exec
  /\ dispatchLog' = w.dispatchLog
  /\ sel' = w.sel
  /\ rlDeadline' = w.rlDeadline
  /\ waited' = w.waited
  /\ poolSeen' = w.poolSeen
  /\ callTimes' = w.callTimes
  /\ stored' = w.stored
  /\ loading' = w.loading
  /\ openedAt' = [id \in KeyIds |->
                    IF w.ks[id].circuitState # "open" THEN NoTime
                    ELSE IF ks[id].circuitState # "open" THEN now
                    ELSE w.openedAt[id]]
  /\ warnings' = [id \in KeyIds |->
                    w.warnings[id] + timesFired(w.ks[id], "onWarning")]
  /\ allExhausted' = w.allExhausted
  /\ workers' = w.workers
  /\ inFlight' = w.inFlight

(* -------------------------------- Init -------------------------------- *)
\* No getKeyStats call was made.
NoStats == [id |-> NoKey, quotaUsed |-> 0, quotaRemaining |-> 0,
            isExhausted |-> FALSE]

\* No health report was asked for.
NoHealth ==
  [source |-> "none", availableKeys |-> 0, totalKeys |-> 0,
   status |-> "exhausted", passing |-> 0]

\* The pool as createKeyPool returns it, on a storage that holds inStorage:
\* initPromise is in state b, ops operator calls may follow, the hooks of
\* thrown throw, the storage is of kind ad and config.keys has the ids ids;
\* err is what createKeyPool threw.
createdWith(b, inStorage, ops, thrown, ad, ids, err) ==
  /\ now = 0
  /\ month = 0
  /\ \E c \in PoolConfigChoices :
       /\ maxRetriesCfg = c.maxRetries
       /\ maxSize = c.maxQueueSize
  /\ states = ids
  /\ keyError = err
  /\ ks = [id \in KeyIds |->
             IF \E i \in 1..Len(ids) : ids[i] = id THEN createKeyState(id)
             ELSE NoState]
  /\ currentIndex = 0
  /\ queue = <<>>
  /\ reqs = [r \in ReqIds |-> [queuedAt |-> 0, maxWaitMs |-> 0]]
  /\ outcome = [r \in ReqIds |-> "none"]
  /\ processing = FALSE
  /\ timeoutChecker = FALSE
  /\ tickDue = FALSE
  /\ exec = IdleExec
  /\ nextReq = 1
  /\ nextKey = InitialKeys + 1
  /\ opsLeft = ops
  /\ faultsLeft = MaxFaults
  /\ boot = b
  /\ throwing = thrown
  /\ adapter = ad
  /\ writes = [id \in KeyIds |-> <<>>]
  /\ picks = <<>>
  /\ excludeIds = {}
  /\ stats = NoStats
  /\ health = NoHealth
  /\ awaiting = <<>>
  /\ stored = inStorage
  /\ loading = [id \in KeyIds |-> NoValue]
  /\ shut = FALSE
  /\ afterShut = {}
  /\ dispatchLog = <<>>
  /\ sel = NoSel
  /\ rlDeadline = [id \in KeyIds |-> NoTime]
  /\ callTimes = [id \in KeyIds |-> <<>>]
  /\ openedAt = [id \in KeyIds |-> NoTime]
  /\ warnings = [id \in KeyIds |-> 0]
  /\ allExhausted = [r \in ReqIds |-> 0]
  /\ workers = 0
  /\ inFlight = 0
  /\ waited = [r \in ReqIds |-> NoValue]
  /\ fullErr = [queueSize |-> 0, maxQueueSize |-> 0, retryAfterMs |-> 0]
  /\ poolSeen = {}

\* createKeyPool with the keys 1..InitialKeys.
created(b, inStorage, ops, thrown, ad) ==
  createdWith(b, inStorage, ops, thrown, ad, [i \in 1..InitialKeys |-> i],
              "none")

\* The pool once its initial load, from a storage that holds nothing, is done.
Init == created("loaded", [id \in KeyIds |-> NoValue], MaxOps, {}, "memory")

(* ------------------------------- actions ------------------------------ *)
\* What no step of the worker changes.
poolVars == <<maxRetriesCfg, states, nextKey>>
setupVars == <<maxSize, throwing, adapter, keyError>>

configVars ==
  <<setupVars, boot, awaiting, writes, picks, excludeIds, stats, month, health>>
budgetVars == <<opsLeft, faultsLeft>>

InQueue(r) == \E i \in 1..Len(queue) : queue[i] = r

\* pool.execute(fn, {maxWaitMs}) -> queue.enqueue: a full queue throws
\* QueueFullError; otherwise the request is pushed, the timeout checker is
\* started and processNext runs up to its first await.
enqueue(w, r, maxWaitMs) ==
  processNext(
    [w EXCEPT
       !.queue = Append(@, r),
       !.reqs[r] = [queuedAt |-> now,
                    maxWaitMs |-> IF maxWaitMs = NoValue THEN DefaultMaxWaitMs
                                  ELSE maxWaitMs],
       !.outcome[r] = "pending",
       !.timeoutChecker = TRUE])

\* enqueue's test `this.queue.length >= this.maxSize`, and one that is off by
\* one.
queueIsOverfull(q) == Len(q) > maxSize

queueIsFull(q) == Len(q) >= maxSize

\* queue.enqueue(fn, maxWaitMs) of request r, with the QueueFullError it may
\* throw.
accept(st, r, maxWaitMs) ==
  IF queueIsFull(st.w.queue)
  THEN [w |-> [st.w EXCEPT !.outcome[r] = "full"],
        fullErr |-> [queueSize |-> Len(st.w.queue),
                     maxQueueSize |-> maxSize,
                     retryAfterMs |-> estimateRetryAfter(st.w.queue)]]
  ELSE [w |-> enqueue(st.w, r, maxWaitMs), fullErr |-> st.fullErr]

\* The worker and the last QueueFullError after enqueue.
admit(st) ==
  /\ Install(st.w)
  /\ fullErr' = st.fullErr

\* `await initPromise` suspends execute(), and an execute() that does not
\* wait.
initNeverPending == FALSE

initPending == boot = "loading"

\* pool.execute(fn, {maxWaitMs}): await initPromise, which throws when the
\* initial load failed, then queue.enqueue.
Execute(maxWaitMs) ==
  /\ nextReq <= MaxRequests
  /\ nextReq' = nextReq + 1
  /\ afterShut' = IF shut THEN afterShut \cup {nextReq} ELSE afterShut
  /\ IF boot = "failed"
     THEN /\ Install([Worker EXCEPT !.outcome[nextReq] = "storageError"])
          /\ UNCHANGED <<fullErr, awaiting>>
     ELSE IF initPending
     THEN /\ Install(Worker)
          /\ awaiting' = Append(awaiting, [req |-> nextReq,
                                           maxWaitMs |-> maxWaitMs])
          /\ UNCHANGED fullErr
     ELSE /\ admit(accept([w |-> Worker, fullErr |-> fullErr], nextReq,
                          maxWaitMs))
          /\ UNCHANGED awaiting
  /\ UNCHANGED <<setupVars, boot, writes, picks, excludeIds, stats, month, health>>
  /\ UNCHANGED <<now, poolVars, budgetVars, shut>>

\* Executor.handleRateLimited, and one that ignores getRetryAfter.
handleRateLimitedDefaultOnly(k, retryAfter) ==
  [k EXCEPT !.rateLimitedUntil = now + 60000]

handleRateLimited(k, retryAfter) ==
  [k EXCEPT !.rateLimitedUntil =
     IF retryAfter # NoValue THEN now + retryAfter * 1000 ELSE now + 60000]

\* QuotaTracker.persistState after increment / syncFromResponse: what
\* storage holds under quota:<id> afterwards (an unlimited key persists
\* nothing).  The memory adapter's set has stored the value when it returns;
\* the docker adapter's set has only begun.
persisted(id, k, old) ==
  IF quotaTypeOf(id) = "unlimited" \/ adapter = "docker" THEN old
  ELSE k.quotaUsed

\* The values that handleSuccess hands to storage.set, in the order of its
\* persistState calls: increment's, then syncFromResponse's if it raised
\* quotaUsed.
written(id, k, remaining) ==
  IF quotaTypeOf(id) = "unlimited" THEN <<>>
  ELSE <<increment(id, recordSuccess(k)).quotaUsed>>
       \o (IF remaining # NoValue
              /\ quotaLimitOf(id) - remaining
                   > increment(id, recordSuccess(k)).quotaUsed
           THEN <<quotaLimitOf(id) - remaining>> ELSE <<>>)

\* Executor.handleSuccess; a hook that throws in increment ends it there.
handleSuccess(id, k, remaining) ==
  LET k1 == increment(id, recordSuccess(k))
      k2 == IF remaining # NoValue THEN syncFromResponse(id, k1, remaining)
            ELSE k1
  IN IF threw(k, k1) THEN k1 ELSE [k2 EXCEPT !.rateLimitedUntil = NoTime]

\* executeRequest's catch block, entered with error err while key id was in
\* use: recordFailure, lastError, retryCount++, and the loop goes on.  An
\* onKeyCircuitOpen that throws here leaves executeRequest: processNext
\* catches it and shifts the request, which nobody settles.
caught(w, id, err) ==
  IF threw(w.ks[id], recordFailure(w.ks[id]))
  THEN AfterCallback([w EXCEPT !.ks[id] = recordFailure(@)])
  ELSE ExecLoop([w EXCEPT !.ks[id] = recordFailure(@),
                          !.exec.lastError = err,
                          !.exec.retryCount = @ + 1])

\* The isError branch of executeRequest, inside its try block.
failed(w, id) ==
  IF threw(w.ks[id], recordFailure(w.ks[id]))
  THEN caught([w EXCEPT !.ks[id] = recordFailure(@)], id, "hookError")
  ELSE ExecLoop([w EXCEPT !.ks[id] = recordFailure(@),
                          !.exec.retryCount = @ + 1])

\* The success branch of executeRequest, inside its try block: handleSuccess
\* (with the writes of persistState), request.resolve, return.
succeeded(w, id, remaining) ==
  IF threw(w.ks[id], handleSuccess(id, w.ks[id], remaining))
  THEN caught([w EXCEPT !.ks[id] = handleSuccess(id, @, remaining)], id,
              "hookError")
  ELSE AfterCallback(settle(
         [w EXCEPT !.ks[id] = handleSuccess(id, @, remaining),
                   !.stored[id] =
                      persisted(id, handleSuccess(id, w.ks[id], remaining), @),
                   !.rlDeadline[id] = NoTime],
         w.exec.req, "resolved"))

\* A predicate of the configuration throws for a response that the
\* predicates, if they returned, would classify as result: isRateLimited is
\* called first, and isError if isRateLimited returned false.
predicateThrows(result) ==
  /\ result # "thrown"
  /\ \/ "isRateLimited" \in throwing
     \/ result # "rateLimited" /\ "isError" \in throwing

\* The caller's function, called with exec.key, returns a response (that the
\* predicates classify as rate-limited, as an error or as a success) or
\* throws; executeRequest goes on from its await to its next await or to its
\* return, and processNext with it.  A predicate that throws does so inside
\* the try block.
FnDone(result, retryAfter, remaining) ==
  /\ exec.key # NoKey
  /\ result # "success" => faultsLeft > 0
  /\ faultsLeft' = IF result = "success" THEN faultsLeft ELSE faultsLeft - 1
  /\ LET id == exec.key
         k == Worker.ks[id]
         w == [Worker EXCEPT !.exec.key = NoKey, !.inFlight = @ - 1]
     IN CASE predicateThrows(result) ->
               /\ retryAfter = NoValue /\ remaining = NoValue
               /\ Install(caught(w, id, "predicateError"))
          [] result = "rateLimited" ->
               /\ remaining = NoValue
               /\ Install(ExecLoop(
                    [w EXCEPT !.ks[id] = handleRateLimited(k, retryAfter),
                              !.rlDeadline[id] =
                                 now + (IF retryAfter = NoValue THEN 60
                                        ELSE retryAfter) * 1000,
                              !.exec.retryCount = @ + 1]))
          [] result = "error" ->
               /\ retryAfter = NoValue /\ remaining = NoValue
               /\ Install(failed(w, id))
          [] result = "thrown" ->
               /\ retryAfter = NoValue /\ remaining = NoValue
               /\ Install(caught(w, id, "thrown"))
          [] result = "success" ->
               /\ retryAfter = NoValue
               /\ Install(succeeded(w, id, remaining))
  /\ writes' = IF /\ adapter = "docker"
                  /\ result = "success"
                  /\ ~predicateThrows(result)
                  /\ ~threw(Worker.ks[exec.key],
                            handleSuccess(exec.key, Worker.ks[exec.key],
                                          remaining))
               THEN [writes EXCEPT
                       ![exec.key] = @ \o written(exec.key,
                                                  Worker.ks[exec.key],
                                                  remaining)]
               ELSE writes
  /\ UNCHANGED <<setupVars, boot, awaiting, picks, excludeIds, stats, month, health>>
  /\ UNCHANGED <<now, poolVars, nextReq, opsLeft, shut, afterShut, fullErr>>

\* RequestQueue.checkTimeouts: every request of the queue whose wait has
\* reached its maxWaitMs is spliced out and rejected with QueueTimeoutError;
\* the checker stops when the queue is left empty.  And a checkTimeouts that
\* stops the checker whatever the queue holds.
checkTimeoutsThenStop(w) ==
  LET late == {r \in ReqIds :
                 /\ \E i \in 1..Len(w.queue) : w.queue[i] = r
                 /\ now - w.reqs[r].queuedAt >= w.reqs[r].maxWaitMs}
      rest == SelectSeq(w.queue, LAMBDA r : r \notin late)
  IN [w EXCEPT
        !.queue = rest,
        !.reqs = [r \in ReqIds |-> IF r \in late THEN left(@, r)[r] ELSE @[r]],
        !.outcome = [r \in ReqIds |->
                       IF r \in late /\ @[r] = "pending" THEN "timeout"
                       ELSE @[r]],
        !.waited = [r \in ReqIds |->
                      IF r \in late THEN now - w.reqs[r].queuedAt ELSE @[r]],
        !.timeoutChecker = FALSE,
        !.tickDue = FALSE]

checkTimeouts(w) ==
  LET late == {r \in ReqIds :
                 /\ \E i \in 1..Len(w.queue) : w.queue[i] = r
                 /\ now - w.reqs[r].queuedAt >= w.reqs[r].maxWaitMs}
      rest == SelectSeq(w.queue, LAMBDA r : r \notin late)
  IN [w EXCEPT
        !.queue = rest,
        !.reqs = [r \in ReqIds |-> IF r \in late THEN left(@, r)[r] ELSE @[r]],
        !.outcome = [r \in ReqIds |->
                       IF r \in late /\ @[r] = "pending" THEN "timeout"
                       ELSE @[r]],
        !.waited = [r \in ReqIds |->
                      IF r \in late THEN now - w.reqs[r].queuedAt ELSE @[r]],
        !.timeoutChecker = (rest # <<>>),
        !.tickDue = FALSE]

\* The 100 ms interval fires.
Tick ==
  /\ timeoutChecker
  /\ Install(checkTimeouts(Worker))
  /\ UNCHANGED configVars
  /\ UNCHANGED <<now, poolVars, budgetVars, nextReq, shut, afterShut, fullErr>>

\* RequestQueue.clear(err), and one that empties the queue without rejecting.
clearSilently(w) ==
  [w EXCEPT !.queue = <<>>, !.timeoutChecker = FALSE, !.tickDue = FALSE]

clear(w) ==
  [w EXCEPT
     !.queue = <<>>,
     !.reqs = [r \in ReqIds |->
                 IF \E i \in 1..Len(w.queue) : w.queue[i] = r
                 THEN left(@, r)[r] ELSE @[r]],
     !.outcome = [r \in ReqIds |->
                    IF (\E i \in 1..Len(w.queue) : w.queue[i] = r)
                       /\ @[r] = "pending"
                    THEN "shutdown" ELSE @[r]],
     !.timeoutChecker = FALSE,
     !.tickDue = FALSE]

\* pool.shutdown() -> queue.clear(new Error('Pool is shutting down'))
Shutdown ==
  /\ opsLeft > 0
  /\ opsLeft' = opsLeft - 1
  /\ Install(clear(Worker))
  /\ shut' = TRUE
  /\ UNCHANGED configVars
  /\ UNCHANGED <<now, poolVars, faultsLeft, nextReq, afterShut, fullErr>>

\* QuotaTracker.loadState once storage.get has answered with data.
loadState(k, data) == [k EXCEPT !.quotaUsed = data]

\* pool.addKey(key) with an id that is not registered, storage holding
\* inStorage for it: the key joins the pool and its loadState is started and
\* not awaited.
AddKey(inStorage) ==
  /\ opsLeft > 0
  /\ nextKey <= NumKeyIds
  /\ opsLeft' = opsLeft - 1
  /\ nextKey' = nextKey + 1
  /\ states' = Append(states, nextKey)
  /\ Install([Worker EXCEPT
                !.ks[nextKey] = createKeyState(nextKey),
                !.stored[nextKey] = inStorage,
                !.loading[nextKey] = inStorage,
                !.poolSeen = IF exec.req # NoReq THEN @ \cup {nextKey} ELSE @])
  /\ UNCHANGED configVars
  /\ UNCHANGED <<now, maxRetriesCfg, faultsLeft, nextReq, shut, afterShut,
                 fullErr>>

\* pool.removeKey(id) of a registered key.  The frame of executeRequest keeps
\* the KeyState it is using.
RemoveKey(id) ==
  /\ opsLeft > 0
  /\ InPool(id)
  /\ opsLeft' = opsLeft - 1
  /\ states' = SelectSeq(states, LAMBDA x : x # id)
  /\ Install([Worker EXCEPT
                !.ks[id] = IF id = exec.key THEN @ ELSE NoState,
                !.stored[id] = IF id = exec.key THEN @ ELSE NoValue,
                !.loading[id] = IF id = exec.key THEN @ ELSE NoValue,
                !.warnings[id] = IF id = exec.key THEN @ ELSE 0,
                !.rlDeadline[id] = NoTime])
  /\ UNCHANGED configVars
  /\ UNCHANGED <<now, maxRetriesCfg, nextKey, faultsLeft, nextReq, shut,
                 afterShut, fullErr>>

\* The loadState that addKey started goes on from its `await storage.get`.
LoadDone(id) ==
  /\ loading[id] # NoValue
  /\ Install([Worker EXCEPT !.ks[id] = loadState(@, loading[id]),
                            !.loading[id] = NoValue])
  /\ UNCHANGED configVars
  /\ UNCHANGED <<now, poolVars, budgetVars, nextReq, shut, afterShut, fullErr>>

\* pool.openCircuit / closeCircuit / resetQuota of a registered key; reset
\* tells that the call is QuotaTracker.reset, which persists the state and
\* begins a new period.  An openCircuit of the operator is an opening of its
\* own.
KeyOp(id, after, reset) ==
  /\ opsLeft > 0
  /\ InPool(id)
  /\ opsLeft' = opsLeft - 1
  /\ Install([Worker EXCEPT
                !.ks[id] = after,
                !.stored[id] = IF reset THEN after.quotaUsed ELSE @,
                !.openedAt[id] =
                   IF after.circuitOpenUntil # ks[id].circuitOpenUntil THEN now
                   ELSE @,
                !.warnings[id] = IF reset THEN 0 ELSE @])
  /\ UNCHANGED configVars
  /\ UNCHANGED <<now, poolVars, faultsLeft, nextReq, shut, afterShut, fullErr>>

OpenCircuit(id) == KeyOp(id, forceOpen(Worker.ks[id]), FALSE)
CloseCircuit(id) == KeyOp(id, forceClose(Worker.ks[id]), FALSE)
ResetQuota(id) == KeyOp(id, resetQuotaState(Worker.ks[id]), TRUE)

\* Time passes.  The clock advances by more than the checker's 100 ms, so
\* a running checker fires at the new time before the clock advances again;
\* storage answers a get within less than one advance of the clock.
AdvanceTime(dt) ==
  /\ now + dt <= MaxTime
  /\ ~tickDue
  /\ \A id \in KeyIds : loading[id] = NoValue
  /\ boot # "loading"
  /\ now' = now + dt
  /\ Install([Worker EXCEPT !.tickDue = timeoutChecker])
  /\ UNCHANGED configVars
  /\ UNCHANGED <<poolVars, budgetVars, nextReq, shut, afterShut, fullErr>>

Next ==
  \/ \E mw \in MaxWaitChoices(nextReq) : Execute(mw)
  \/ \E res \in {"rateLimited", "error", "thrown", "success"},
        ra \in RetryAfterChoices, rem \in RemainingChoices :
        FnDone(res, ra, rem)
  \/ Tick
  \/ Shutdown
  \/ \E v \in StoredChoices : AddKey(v)
  \/ \E id \in KeyIds : LoadDone(id)
  \/ \E id \in KeyIds : RemoveKey(id)
  \/ \E id \in KeyIds : OpenCircuit(id)
  \/ \E id \in KeyIds : CloseCircuit(id)
  \/ \E id \in KeyIds : ResetQuota(id)
  \/ \E dt \in TimeSteps : AdvanceTime(dt)

Spec == Init /\ [][Next]_vars

(* ------------------------- construction and load ---------------------- *)
\* What the storage may hold for the keys of the configuration when the pool
\* is built.
StorageChoices ==
  {st \in [KeyIds -> StoredChoices] :
     \A id \in KeyIds : id > InitialKeys => st[id] = NoValue}

\* createKeyPool has returned: the initial loadState of every key is under
\* way.  No operator call follows.
InitLoading == \E st \in StorageChoices : created("loading", st, 0, {}, "memory")

RECURSIVE acceptAll(_, _)
\* The suspended execute() calls go on, in the order of their calls.
acceptAll(st, a) ==
  IF a = <<>> THEN st
  ELSE acceptAll(accept(st, Head(a).req, Head(a).maxWaitMs), Tail(a))

\* Every loadState of initPromise has answered: the key states take what
\* storage held and the suspended execute() calls enqueue.
InitLoaded ==
  /\ boot = "loading"
  /\ boot' = "loaded"
  /\ awaiting' = <<>>
  /\ admit(acceptAll(
       [w |-> [Worker EXCEPT
                 !.ks = [id \in KeyIds |->
                           IF InPool(id) /\ stored[id] # NoValue
                           THEN loadState(@[id], stored[id]) ELSE @[id]]],
        fullErr |-> fullErr], awaiting))
  /\ UNCHANGED <<setupVars, writes, picks, excludeIds, stats, month, health, now, poolVars, budgetVars, nextReq, shut,
                 afterShut>>

\* storage.get rejects in a loadState of initPromise: initPromise rejects,
\* and with it every execute() that awaits it.
InitFailed ==
  /\ boot = "loading"
  /\ boot' = "failed"
  /\ awaiting' = <<>>
  /\ Install([Worker EXCEPT
                !.outcome = [r \in ReqIds |->
                               IF \E i \in 1..Len(awaiting) : awaiting[i].req = r
                               THEN "storageError" ELSE @[r]]])
  /\ UNCHANGED <<setupVars, writes, picks, excludeIds, stats, month, health, now, poolVars, budgetVars, nextReq, shut,
                 afterShut, fullErr>>

NextLoading ==
  \/ \E mw \in MaxWaitChoices(nextReq) : Execute(mw)
  \/ InitLoaded
  \/ InitFailed
  \/ \E res \in {"rateLimited", "error", "thrown", "success"},
        ra \in RetryAfterChoices, rem \in RemainingChoices :
        FnDone(res, ra, rem)
  \/ Tick
  \/ \E dt \in TimeSteps : AdvanceTime(dt)

SpecLoading == InitLoading /\ [][NextLoading]_vars

(* ---------------------------- hooks that throw ------------------------ *)
Hooks == {"onWarning", "onKeyExhausted", "onKeyCircuitOpen",
          "onAllKeysExhausted"}

\* A pool, loaded, one of whose hooks throws whenever it is called.
InitThrowing ==
  \E h \in Hooks : created("loaded", [id \in KeyIds |-> NoValue], 0, {h},
                          "memory")

NextThrowing ==
  \/ \E mw \in MaxWaitChoices(nextReq) : Execute(mw)
  \/ \E res \in {"rateLimited", "error", "thrown", "success"},
        ra \in RetryAfterChoices, rem \in RemainingChoices :
        FnDone(res, ra, rem)
  \/ Tick
  \/ \E dt \in TimeSteps : AdvanceTime(dt)

SpecThrowing == InitThrowing /\ [][NextThrowing]_vars

\* The predicates of the configuration that classify a response.
Predicates == {"isRateLimited", "isError"}

\* A pool, loaded, one of whose predicates throws whenever it is called.
InitPredicates ==
  \E p \in Predicates : created("loaded", [id \in KeyIds |-> NoValue], 0, {p},
                              "memory")

SpecPredicates == InitPredicates /\ [][NextThrowing]_vars

(* ------------------------- the docker storage adapter ----------------- *)
\* A pool on the docker adapter, its initial load done.
InitDocker == created("loaded", [id \in KeyIds |-> NoValue], 0, {}, "docker")

\* The fs.writeFile of one of the set calls under way for quota:<id> ends:
\* the file holds its value.  The writes of one file are not ordered among
\* themselves.
WriteDone(id, i) ==
  /\ i \in 1..Len(writes[id])
  /\ stored' = [stored EXCEPT ![id] = writes[id][i]]
  /\ writes' = [writes EXCEPT
                  ![id] = SubSeq(@, 1, i - 1) \o SubSeq(@, i + 1, Len(@))]
  /\ UNCHANGED <<setupVars, boot, awaiting, picks, excludeIds, stats, month, health, now, poolVars,
                 budgetVars,
                 nextReq,
                 shut, afterShut, fullErr, ks, currentIndex, queue, reqs,
                 outcome, processing, timeoutChecker, tickDue, exec,
                 loading, dispatchLog, sel, rlDeadline, waited, poolSeen,
                 callTimes, openedAt, warnings, allExhausted, workers,
                 inFlight>>

NextDocker ==
  \/ \E mw \in MaxWaitChoices(nextReq) : Execute(mw)
  \/ \E res \in {"rateLimited", "error", "thrown", "success"},
        ra \in RetryAfterChoices, rem \in RemainingChoices :
        FnDone(res, ra, rem)
  \/ \E id \in KeyIds, i \in 1..(2 * MaxRequests) : WriteDone(id, i)
  \/ Tick
  \/ \E dt \in TimeSteps : AdvanceTime(dt)

SpecDocker == InitDocker /\ [][NextDocker]_vars

(* --------------------------- key configurations ----------------------- *)
\* The KeyConfig of the model's key id (rps and weight NoValue: undefined).
keyConfig(id) ==
  [id |-> id, hasValue |-> TRUE, hasQuota |-> TRUE,
   rps |-> IF rpsOf(id) = 0 THEN NoValue ELSE rpsOf(id),
   weight |-> IF weightOf(id) = 1 THEN NoValue ELSE weightOf(id)]

\* The key configurations handed to createKeyPool and addKey: those of the
\* model's keys and some that validateKeyConfig refuses.
KeyConfigChoices ==
  {keyConfig(id) : id \in KeyIds}
    \cup {[keyConfig(1) EXCEPT !.rps = 0],
          [keyConfig(2) EXCEPT !.weight = 0],
          [keyConfig(3) EXCEPT !.hasValue = FALSE],
          [keyConfig(3) EXCEPT !.hasQuota = FALSE]}

\* validateKeyConfig(key) does not throw.
validateKeyConfig(key) ==
  /\ key.id # NoKey
  /\ key.hasValue
  /\ key.hasQuota
  /\ key.rps = NoValue \/ key.rps > 0
  /\ key.weight = NoValue \/ key.weight > 0

\* config.keys: up to InitialKeys configurations, in any order.
KeyListChoices ==
  UNION {[1..n -> KeyConfigChoices] : n \in 0..InitialKeys}

\* createKeyPool(config) for any config.keys: it throws, and there is no
\* pool (no key), or it returns the pool with the keys of the list.
InitKeys ==
  \E keys \in KeyListChoices :
    IF keys = <<>>
    THEN createdWith("loaded", [id \in KeyIds |-> NoValue], 0, {}, "memory",
                     <<>>, "NoKeysConfiguredError")
    ELSE IF \E i \in 1..Len(keys) : ~validateKeyConfig(keys[i])
    THEN createdWith("loaded", [id \in KeyIds |-> NoValue], 0, {}, "memory",
                     <<>>, "InvalidKeyConfigError")
    ELSE createdWith("loaded", [id \in KeyIds |-> NoValue], 0, {}, "memory",
                     [i \in 1..Len(keys) |-> keys[i].id], "none")

\* pool.addKey(key) for any key, storage holding inStorage for its id: it
\* throws InvalidKeyConfigError, or the key joins the pool and its loadState
\* is started and not awaited.
AddKeyWith(key, inStorage) ==
  /\ states # <<>>
  /\ IF ~validateKeyConfig(key) \/ InPool(key.id)
     THEN /\ keyError' = "InvalidKeyConfigError"
          /\ Install(Worker)
          /\ UNCHANGED states
     ELSE /\ keyError' = "none"
          /\ states' = Append(states, key.id)
          /\ Install([Worker EXCEPT
                        !.ks[key.id] = createKeyState(key.id),
                        !.stored[key.id] = inStorage,
                        !.loading[key.id] = inStorage,
                        !.poolSeen = IF exec.req # NoReq
                                     THEN @ \cup {key.id} ELSE @])
  /\ UNCHANGED <<maxSize, throwing, adapter, boot, awaiting, writes, picks, excludeIds, stats, month,
                 health>>
  /\ UNCHANGED <<now, maxRetriesCfg, nextKey, budgetVars, nextReq, shut,
                 afterShut, fullErr>>

NextKeys ==
  \/ \E key \in KeyConfigChoices, v \in StoredChoices : AddKeyWith(key, v)
  \/ \E id \in KeyIds : LoadDone(id)

SpecKeys == InitKeys /\ [][NextKeys]_vars

(* ------------------------------ selection ----------------------------- *)
MaxPicks == 9

\* The lists of distinct keys a pool may have.
DistinctKeyLists ==
  {l \in UNION {[1..n -> KeyIds] : n \in 1..NumKeyIds} :
     \A i, j \in 1..Len(l) : l[i] = l[j] => i = j}

\* A pool just built, whose keys are all available.
InitSelect ==
  \E l \in DistinctKeyLists :
    createdWith("loaded", [id \in KeyIds |-> NoValue], 0, {}, "memory", l,
                "none")

\* KeySelector.selectKey(states) with no exclusion, the key states left as
\* they are: the call moves the cursor only.
Select ==
  /\ Len(picks) < MaxPicks
  /\ picks' = Append(picks, selectKey(ks, currentIndex, {}).key)
  /\ excludeIds' = {}
  /\ Install([Worker EXCEPT
                !.currentIndex = selectKey(ks, currentIndex, {}).currentIndex])
  /\ UNCHANGED <<setupVars, boot, awaiting, writes, stats, month, health, now,
                 poolVars, budgetVars, nextReq, shut, afterShut, fullErr>>

NextSelect == Select

SpecSelect == InitSelect /\ [][NextSelect]_vars

(* ---------------------------- the token bucket ------------------------ *)
\* The clock's steps between two calls of the rate limiter.
BucketSteps == {250, 500}

\* RateLimiter.tryConsume(state) and RateLimiter.reset(state) called on a
\* key of the pool at any time, whatever tryConsume returns.
TryConsume(id) ==
  /\ InPool(id)
  /\ Install([Worker EXCEPT !.ks[id] = tryConsume(id, @)])
  /\ UNCHANGED configVars
  /\ UNCHANGED <<now, poolVars, budgetVars, nextReq, shut, afterShut, fullErr>>

ResetTokens(id) ==
  /\ InPool(id)
  /\ Install([Worker EXCEPT !.ks[id] = resetTokens(id, @)])
  /\ UNCHANGED configVars
  /\ UNCHANGED <<now, poolVars, budgetVars, nextReq, shut, afterShut, fullErr>>

NextBucket ==
  \/ \E id \in KeyIds : TryConsume(id)
  \/ \E id \in KeyIds : ResetTokens(id)
  \/ \E dt \in BucketSteps : AdvanceTime(dt)

SpecBucket == InitSelect /\ [][NextBucket]_vars

(* ------------------------- selection with exclusion ------------------- *)
\* Calls of selectKey made on their own in one behaviour.
MaxScans == 2

\* A pool just built, which the operator may act upon.
InitScan ==
  \E l \in DistinctKeyLists :
    createdWith("loaded", [id \in KeyIds |-> NoValue], MaxOps, {}, "memory", l,
                "none")

\* QuotaTracker.increment(state) called on a key of the pool that has quota
\* left.
Increment(id) ==
  /\ InPool(id)
  /\ hasQuota(id, ks[id])
  /\ Install([Worker EXCEPT
                !.ks[id] = increment(id, @),
                !.stored[id] = persisted(id, increment(id, ks[id]), @),
                !.warnings[id] = IF periodEnded(id, ks[id]) THEN 0 ELSE @])
  /\ UNCHANGED configVars
  /\ UNCHANGED <<now, poolVars, budgetVars, nextReq, shut, afterShut, fullErr>>

\* KeySelector.selectKey(states, excludeIds) for any set of ids.
SelectExcluding(excluded) ==
  /\ Len(picks) < MaxScans
  /\ picks' = Append(picks, selectKey(ks, currentIndex, excluded).key)
  /\ excludeIds' = excluded
  /\ Install([Worker EXCEPT
                !.currentIndex = selectKey(ks, currentIndex, excluded).currentIndex,
                !.ks = selectKey(ks, currentIndex, excluded).ks])
  /\ UNCHANGED <<setupVars, boot, awaiting, writes, stats, month, health, now,
                 poolVars, budgetVars, nextReq, shut, afterShut, fullErr>>

\* The keys are used and a circuit is opened first; the selections follow,
\* all at one instant.
NextScan ==
  \/ \E excluded \in SUBSET KeyIds : SelectExcluding(excluded)
  \/ picks = <<>> /\ \E id \in KeyIds : TryConsume(id)
  \/ picks = <<>> /\ \E id \in KeyIds : Increment(id)
  \/ picks = <<>> /\ \E id \in KeyIds : OpenCircuit(id)

SpecScan == InitScan /\ [][NextScan]_vars

(* ------------------------------ key stats ----------------------------- *)
\* Months that begin in one behaviour.
MaxMonths == 2

\* buildKeyStats(state): the fields of KeyStats that tell of the quota, each
\* computed where the object literal has it: quotaUsed is read from the
\* state, then getRemaining and hasQuota are called.
buildKeyStats(id, k) ==
  [id |-> id,
   quotaUsed |-> k.quotaUsed,
   quotaRemaining |-> getRemaining(id, k),
   isExhausted |-> ~hasQuota(id, k)]

\* A pool of all the keys, which the operator may act upon.
InitStats ==
  createdWith("loaded", [id \in KeyIds |-> NoValue], MaxOps, {}, "memory",
              [i \in 1..NumKeyIds |-> i], "none")

\* pool.getKeyStats(id) of a registered key.  getRemaining's checkPeriodReset
\* leaves the key in its new period (reset persists it) and getState makes
\* the circuit's lazy transition.
GetKeyStats(id) ==
  /\ InPool(id)
  /\ stats' = buildKeyStats(id, ks[id])
  /\ Install([Worker EXCEPT
                !.ks[id] = checkTransition(checkPeriodReset(id, @)),
                !.stored[id] = IF periodEnded(id, ks[id]) THEN 0 ELSE @,
                !.warnings[id] = IF periodEnded(id, ks[id]) THEN 0 ELSE @])
  /\ UNCHANGED <<setupVars, boot, awaiting, writes, picks, excludeIds, month,
                 health, now, poolVars, budgetVars, nextReq, shut, afterShut,
                 fullErr>>

\* The clock passes into the next UTC month.
NewMonth ==
  /\ month < MaxMonths
  /\ month' = month + 1
  /\ Install(Worker)
  /\ UNCHANGED <<setupVars, boot, awaiting, writes, picks, excludeIds, stats,
                 health, now, poolVars, budgetVars, nextReq, shut, afterShut,
                 fullErr>>

NextStats ==
  \/ \E id \in KeyIds : GetKeyStats(id)
  \/ \E id \in KeyIds : Increment(id)
  \/ \E id \in KeyIds : ResetQuota(id)
  \/ NewMonth

SpecStats == InitStats /\ [][NextStats]_vars

(* -------------------------------- health ------------------------------ *)
MaxTotalKeys == 10

\* HealthMonitor.calculateStatus, and one that takes a fifth of the keys for
\* critical.  availablePercent < 0.2 is 10 * available < 2 * total.
calculateStatusClosed(availableKeys, totalKeys) ==
  IF totalKeys = 0 THEN "exhausted"
  ELSE IF availableKeys = 0 THEN "exhausted"
  ELSE IF 10 * availableKeys <= 2 * totalKeys THEN "critical"
  ELSE IF 10 * availableKeys < 5 * totalKeys THEN "degraded"
  ELSE "healthy"

calculateStatus(availableKeys, totalKeys) ==
  IF totalKeys = 0 THEN "exhausted"
  ELSE IF availableKeys = 0 THEN "exhausted"
  ELSE IF 10 * availableKeys < 2 * totalKeys THEN "critical"
  ELSE IF 10 * availableKeys < 5 * totalKeys THEN "degraded"
  ELSE "healthy"

\* getAvailabilityBreakdown(states).available: the keys that fall through
\* its circuit, quota and rate-limit branches.
breakdownAvailable(kst) ==
  Cardinality({i \in 1..Len(states) :
     /\ checkTransition(kst[states[i]]).circuitState # "open"
     /\ hasQuota(states[i], checkTransition(kst[states[i]]))
     /\ ~(\/ ~hasCapacity(states[i], checkTransition(kst[states[i]]))
          \/ /\ kst[states[i]].rateLimitedUntil # NoTime
             /\ kst[states[i]].rateLimitedUntil > now)})

\* A pool of all the keys, which the operator may act upon.
InitHealth ==
  createdWith("loaded", [id \in KeyIds |-> NoValue], MaxOps, {}, "memory",
              [i \in 1..NumKeyIds |-> i], "none")

\* pool.getHealth(): the report (status, availableKeys, totalKeys), with the
\* number of keys that pass isKeyAvailable at this instant; the calls read
\* the circuit of every key.
GetHealth ==
  /\ health' = [source |-> "getHealth",
                availableKeys |-> breakdownAvailable(ks),
                totalKeys |-> Len(states),
                status |-> calculateStatus(breakdownAvailable(ks), Len(states)),
                passing |-> Cardinality({i \in 1..Len(states) :
                              isKeyAvailable(states[i], ks[states[i]])})]
  /\ Install([Worker EXCEPT !.ks = getAvailabilityBreakdown(@)])
  /\ UNCHANGED <<setupVars, boot, awaiting, writes, picks, excludeIds, stats, month, now, poolVars,
                 budgetVars, nextReq, shut, afterShut, fullErr>>

\* calculateStatus(availableKeys, totalKeys) for any pair.
CalculateStatus(a, t) ==
  /\ a <= t
  /\ health' = [source |-> "calculateStatus", availableKeys |-> a,
                totalKeys |-> t, status |-> calculateStatus(a, t),
                passing |-> a]
  /\ Install(Worker)
  /\ UNCHANGED <<setupVars, boot, awaiting, writes, picks, excludeIds, stats, month, now, poolVars,
                 budgetVars, nextReq, shut, afterShut, fullErr>>

NextHealth ==
  \/ GetHealth
  \/ \E a, t \in 0..MaxTotalKeys : CalculateStatus(a, t)
  \/ \E id \in KeyIds : TryConsume(id)
  \/ \E id \in KeyIds : OpenCircuit(id)
  \/ \E dt \in TimeSteps : AdvanceTime(dt)

SpecHealth == InitHealth /\ [][NextHealth]_vars

(* ------------------------------- properties --------------------------- *)
Accepted(r) == outcome[r] \notin {"none", "full"}
Dispatched(r) == \E i \in 1..Len(dispatchLog) : dispatchLog[i] = r
Calls == Len(exec.calls)

\* C1, as the specification words it: while a request is being processed the
\* caller's function has been invoked at most min(k, maxRetries) times, k the
\* number of keys in the pool.
C1_BoundByCurrentPool ==
  exec.req # NoReq => Calls <= Min(Len(states), maxRetries)

\* C1, amended: while a request is being processed no key is passed to the
\* caller's function twice, the invocations number at most the keys that
\* were registered at some time during the processing, and at most
\* maxRetries when maxRetries is configured.
C1_DistinctKeysBounded ==
  /\ \A i, j \in 1..Calls : i # j => exec.calls[i] # exec.calls[j]
  /\ Calls <= Cardinality(poolSeen)
  /\ maxRetriesCfg # NoValue => Calls <= maxRetriesCfg
  /\ Len(states) = Cardinality(poolSeen) =>
       Calls <= Min(Len(states), maxRetries)

\* C1's case: a second key is being tried for a request after the first
\* attempt failed, and the pool has lost a key in the meantime.
C1_Witness ==
  /\ exec.key # NoKey
  /\ Calls = 2
  /\ Len(states) < Cardinality(poolSeen)

\* C2: the key the caller's function is running with passed the availability
\* check when it was selected: circuit not open, quota remaining, no
\* rateLimitedUntil in the future, and, with rps configured, at least one
\* token in the refilled bucket, of which exactly one was taken.
C2_InvokedKeyWasAvailable ==
  exec.key # NoKey =>
    LET id == exec.key
        refilled == Min(rpsOf(id) * 1000,
                        sel.tokens + (sel.at - sel.lastTokenRefill) * rpsOf(id))
    IN /\ sel.key = id
       /\ sel.at <= now
       /\ sel.circuitState # "open"
       /\ quotaTypeOf(id) = "unlimited" \/ sel.quotaUsed < quotaLimitOf(id)
       /\ sel.rateLimitedUntil = NoTime \/ sel.rateLimitedUntil <= sel.at
       /\ rpsOf(id) > 0 =>
            /\ refilled >= 1000
            /\ sel.tokensAfter = refilled - 1000

\* C2's case: a call runs with a key with rps configured whose bucket was
\* refilled at the selection, while another key of the pool has its circuit
\* open.
C2_Witness ==
  /\ exec.key # NoKey
  /\ rpsOf(exec.key) > 0
  /\ sel.lastTokenRefill < sel.at
  /\ \E id \in KeyIds : InPool(id) /\ ks[id].circuitState = "open"

\* C3: under enqueues, timeout ticks and completions (shutdown is not
\* called) no accepted request leaves the queue without its promise having
\* been resolved or rejected.
C3_NoSilentDrop ==
  ~shut => \A r \in ReqIds :
             Accepted(r) /\ ~InQueue(r) => outcome[r] # "pending"

\* C4: requests are dispatched in the order of their enqueueing (request ids
\* are given in that order), the request being processed is the one
\* dispatched last, and no request enqueued before it is still waiting: the
\* worker took the head.
C4_Fifo ==
  /\ \A i, j \in 1..Len(dispatchLog) :
       i < j => dispatchLog[i] < dispatchLog[j]
  /\ exec.req # NoReq =>
       /\ dispatchLog # <<>>
       /\ dispatchLog[Len(dispatchLog)] = exec.req
       /\ \A i \in 1..Len(queue) : queue[i] >= exec.req

\* C4's case: a second request has been dispatched while a third one,
\* enqueued after it, waits.
C4_Witness ==
  /\ dispatchLog = <<1, 2>>
  /\ exec.key # NoKey
  /\ queue = <<2, 3>>

C6_ExpiredWaitingRejected ==
  [][~shut' =>
       \A r \in ReqIds :
         /\ (InQueue(r) /\ r # exec.req /\ outcome[r] = "pending"
             /\ now - reqs[r].queuedAt >= reqs[r].maxWaitMs
             /\ \A i \in 1..Len(queue') : queue'[i] # r)
            => outcome'[r] = "timeout" /\ waited'[r] >= reqs[r].maxWaitMs
         /\ (outcome[r] # "timeout" /\ outcome'[r] = "timeout")
            => waited'[r] >= reqs[r].maxWaitMs]_vars

\* C7: a request that was handed to the executor is never rejected with
\* QueueTimeoutError.
C7_DispatchedNeverTimesOut ==
  \A r \in ReqIds : outcome[r] = "timeout" => ~Dispatched(r)

\* C8: shutdown leaves the queue empty and every request that was in it
\* rejected with the shutdown error.
C8_ShutdownRejectsQueued ==
  [][Shutdown =>
       /\ queue' = <<>>
       /\ \A r \in ReqIds : InQueue(r) => outcome'[r] = "shutdown"]_vars

\* C8's case: shutdown found two requests in the queue, the one being
\* processed and one waiting.
C8_Witness ==
  /\ shut
  /\ queue = <<>>
  /\ exec.key # NoKey
  /\ outcome[exec.req] = "shutdown"
  /\ \E r \in ReqIds : r # exec.req /\ outcome[r] = "shutdown"

\* C9: the caller's function is never invoked for a request submitted after
\* shutdown.
C9_NoDispatchAfterShutdown ==
  exec.req \in afterShut => exec.calls = <<>>

\* C10: from a rate-limited response for key k at time t with retry-after s
\* (60 when null), k.rateLimitedUntil = t + s * 1000 for as long as k is
\* registered and has not succeeded since, and a call that runs with k was
\* selected at or after that instant.
C10_RateLimitHonoured ==
  \A id \in KeyIds :
    rlDeadline[id] # NoTime =>
      /\ InPool(id) => ks[id].rateLimitedUntil = rlDeadline[id]
      /\ exec.key = id => sel.at >= rlDeadline[id]

\* C10's case: a key that was rate-limited with a retry-after of one second
\* is not yet back, another request is running with another key.
C10_Witness ==
  \E id \in KeyIds :
    /\ InPool(id)
    /\ rlDeadline[id] # NoTime
    /\ now > 0
    /\ now < rlDeadline[id]
    /\ rlDeadline[id] <= MaxTime
    /\ exec.key # NoKey
    /\ exec.key # id
    /\ Len(dispatchLog) >= 2

\* The whole seconds an interval needs to hold both times.
SecondsSpanned(t1, t2) == ((t2 - t1) + 999) \div 1000

\* C11: of the calls made with a key with rps = r, those that fall in an
\* interval of D whole seconds number at most r + r * D; at one instant
\* (D = 0) at most r.
C11_RateBound ==
  \A id \in KeyIds :
    \A i, j \in 1..Len(callTimes[id]) :
      i <= j =>
        (j - i) + 1 <= rpsOf(id)
                       + rpsOf(id) * SecondsSpanned(callTimes[id][i],
                                                    callTimes[id][j])

\* C11's case: a key with rps = 1 has served a call, was skipped for want
\* of a token while its bucket was half refilled, and serves again a second
\* after the first call.
C11_Witness ==
  \E id \in KeyIds :
    /\ rpsOf(id) = 1
    /\ callTimes[id] = <<0, 1000>>
    /\ Len(dispatchLog) = 3

\* The step is the end of a call: executeRequest goes on from its await.
CallEnds == exec.key # NoKey /\ exec' # exec

\* The step is the end of a call with key id in success, the response
\* carrying rem.
Succeeds(id, rem) ==
  /\ exec.key = id
  /\ CallEnds
  /\ faultsLeft' = faultsLeft
  /\ FnDone("success", NoValue, rem)

\* C12: for a key with a bounded quota of limit L and within one period, the
\* increments made by dispatching never take quotaUsed above L (so at most L
\* requests are resolved with the key): a call that ends in success leaves
\* the quotaUsed of the key that served it at L or below.
C12_IncrementWithinLimit ==
  [][\A id \in KeyIds :
       (quotaTypeOf(id) # "unlimited"
        /\ \E rem \in RemainingChoices : Succeeds(id, rem))
         => ks'[id].quotaUsed <= quotaLimitOf(id)]_vars

\* C13: within one period the quotaUsed of a registered key never decreases
\* in a step of the pool, except in resetQuota, which sets it to 0.
C13_QuotaUsedMonotone ==
  [][\A id \in KeyIds :
       (/\ InPool(id)
        /\ \E i \in 1..Len(states') : states'[i] = id
        /\ ks'[id].quotaUsed < ks[id].quotaUsed)
         => (ResetQuota(id) /\ ks'[id].quotaUsed = 0)]_vars

\* C14: syncFromResponse(remaining) sets the quotaUsed of a bounded key to
\* max(quotaUsed, limit - remaining) and changes nothing on an unlimited key:
\* a success whose response carries `remaining` leaves the serving key at
\* the larger of its incremented count and limit - remaining.
C14_SyncIsMax ==
  [][\A rem \in RemainingChoices \ {NoValue} :
       (InPool(exec.key) /\ Succeeds(exec.key, rem))
         => ks'[exec.key].quotaUsed =
              IF quotaTypeOf(exec.key) = "unlimited"
              THEN ks[exec.key].quotaUsed
              ELSE Max(ks[exec.key].quotaUsed + 1,
                       quotaLimitOf(exec.key) - rem)]_vars

\* C14's case: one call has been made, nothing was loaded from storage, and
\* a key with a limit above 1 stands at its limit: the response's figure
\* was taken.
C14_Witness ==
  \E id \in KeyIds :
    /\ InPool(id)
    /\ quotaTypeOf(id) # "unlimited"
    /\ quotaLimitOf(id) > 1
    /\ ks[id].quotaUsed = quotaLimitOf(id)
    /\ Len(dispatchLog) = 1
    /\ faultsLeft = MaxFaults
    /\ exec.key = NoKey

C16_OpenUntilFromOpening ==
  \A id \in KeyIds :
    (InPool(id) /\ ks[id].circuitState = "open")
      => ks[id].circuitOpenUntil = openedAt[id] + ResetTimeoutMs

\* C17: onKeyCircuitOpen is called exactly once in every step that takes a
\* registered key's circuit from closed or half-open to open (a recorded
\* failure or openCircuit), and in no other step: not by a failure or an
\* openCircuit that hits a circuit already open.
C17_HookOnTransitionIntoOpen ==
  [][\A id \in KeyIds :
       (InPool(id) /\ \E i \in 1..Len(states') : states'[i] = id)
         => timesFired(ks'[id], "onKeyCircuitOpen") =
              IF ks[id].circuitState # "open" /\ ks'[id].circuitState = "open"
              THEN 1 ELSE 0]_vars

\* C17's case: the failure that reached the threshold has just opened a
\* circuit and the hook was called.
C17_Witness ==
  \E id \in KeyIds :
    /\ InPool(id)
    /\ ks[id].circuitState = "open"
    /\ ks[id].consecutiveFailures >= FailureThreshold
    /\ ks[id].fired = <<"onKeyCircuitOpen">>
    /\ opsLeft = MaxOps

\* C18: onWarning is called at most once per key per quota period: it is
\* called in the success whose increment first brings quotaUsed / limit to
\* warningThreshold or above, in no later increment of the period, in no
\* other step, and again only after the key's quota was reset.
C18_WarningOncePerPeriod ==
  /\ [](\A id \in KeyIds : warnings[id] <= 1)
  /\ [][\A id \in KeyIds :
          (InPool(id) /\ \E i \in 1..Len(states') : states'[i] = id)
            => timesFired(ks'[id], "onWarning") =
                 IF /\ quotaTypeOf(id) # "unlimited"
                    /\ (ks[id].quotaUsed + 1) * 100
                         >= WarningThresholdPct * quotaLimitOf(id)
                    /\ warnings[id] = 0
                    /\ \E rem \in RemainingChoices : Succeeds(id, rem)
                 THEN 1 ELSE 0]_vars

\* C18's case: a key that was warned about earlier in the period has just
\* been incremented to its limit and no second warning was given.
C18_Witness ==
  \E id \in KeyIds :
    /\ InPool(id)
    /\ quotaLimitOf(id) > 1
    /\ ks[id].quotaUsed = quotaLimitOf(id)
    /\ ks[id].fired = <<"onKeyExhausted">>
    /\ warnings[id] = 1

\* C19: each time a bounded key goes, at the end of a call, from quotaUsed
\* below its limit to quotaUsed at or above it, onKeyExhausted is called
\* exactly once with the key.
C19_ExhaustedOnCrossing ==
  [][\A id \in KeyIds :
       (/\ InPool(id)
        /\ \E i \in 1..Len(states') : states'[i] = id
        /\ quotaTypeOf(id) # "unlimited"
        /\ CallEnds
        /\ ks[id].quotaUsed < quotaLimitOf(id)
        /\ ks'[id].quotaUsed >= quotaLimitOf(id))
         => timesFired(ks'[id], "onKeyExhausted") = 1]_vars

\* C20: onAllKeysExhausted is called exactly once while a request is run
\* that is rejected with AllKeysExhaustedError, and not at all for any other
\* request.
C20_HookIffExhaustedError ==
  \A r \in ReqIds :
    exec.req # r =>
      allExhausted[r] = IF outcome[r] = "exhausted" THEN 1 ELSE 0

\* C21: a failure of the storage never fails a request: no execute() is
\* rejected with the storage's error.
C21_NoStorageErrorToCaller ==
  \A r \in ReqIds : outcome[r] # "storageError"

\* C23: no call of the caller's function is made before the initial load
\* has completed for every configured key, and the first call finds the
\* key's quotaUsed as storage held it (0 when it held nothing), so that a
\* success makes it n + 1.
C23_LoadedBeforeFirstCall ==
  /\ (exec.key # NoKey \/ processing \/ queue # <<>>) => boot = "loaded"
  /\ (exec.key # NoKey /\ dispatchLog = <<1>> /\ exec.calls = <<exec.key>>)
       => sel.quotaUsed = Max(0, stored[exec.key])

\* C23's case: execute() was called while the load was under way, the load
\* has brought a count of 1 and the first call is being made with that key.
C23_Witness ==
  \E id \in KeyIds :
    /\ boot = "loaded"
    /\ exec.key = id
    /\ dispatchLog = <<1>>
    /\ exec.calls = <<id>>
    /\ stored[id] = 1
    /\ sel.quotaUsed = 1
    /\ ks[id].quotaUsed = 1
    /\ reqs[1].queuedAt = 0

\* C22: a hook that throws changes nothing; in particular a call of the
\* caller's function that ends in success resolves its request, which was
\* pending, whether or not a hook is called and throws in that step.
C22_HookErrorSwallowed ==
  [][(CallEnds /\ faultsLeft' = faultsLeft /\ outcome[exec.req] = "pending")
       => outcome'[exec.req] = "resolved"]_vars

\* C24: once the writes under way have completed, the record quota:<id> of
\* a key with a bounded quota holds the key's quotaUsed (a new pool on the
\* same storage loads that record, C23).
C24_RecordIsCurrent ==
  \A id \in KeyIds :
    (InPool(id) /\ quotaTypeOf(id) # "unlimited" /\ writes[id] = <<>>
     /\ stored[id] # NoValue)
      => stored[id] = ks[id].quotaUsed

\* C25: no two keys of the pool have the same id, whether the pool got its
\* keys from createKeyPool or from addKey.
C25_KeyIdsUnique ==
  \A i, j \in 1..Len(states) : states[i] = states[j] => i = j

\* The sum of the weights of the first i keys of the pool.
RECURSIVE weightUpTo(_)
weightUpTo(i) == IF i = 0 THEN 0 ELSE weightUpTo(i - 1) + weightOf(states[i])

C27_TokensWithinBounds ==
  \A id \in KeyIds :
    rpsOf(id) > 0 =>
      /\ 0 <= ks[id].tokens
      /\ ks[id].tokens <= rpsOf(id) * 1000
      /\ InPool(id) => /\ 0 <= getAvailableTokens(id, ks[id])
                       /\ getAvailableTokens(id, ks[id]) <= rpsOf(id) * 1000

\* C27's case: a bucket that was emptied and has been refilled in part over
\* the time elapsed, at a tryConsume that took nothing.
C27_Witness ==
  \E id \in KeyIds :
    /\ InPool(id)
    /\ rpsOf(id) > 0
    /\ ks[id].lastTokenRefill > 0
    /\ 0 < ks[id].tokens
    /\ ks[id].tokens < 1000

\* C28: the status reported is exhausted when there is no key or none is
\* available, critical when the available keys are less than a fifth of the
\* keys, degraded from a fifth to less than a half, healthy from a half on;
\* and getHealth's availableKeys is the number of keys that pass
\* isKeyAvailable at the instant of the call, its totalKeys the number of
\* keys.
C28_HealthStatus ==
  LET a == health.availableKeys
      t == health.totalKeys
  IN /\ health.status =
          (IF t = 0 \/ a = 0 THEN "exhausted"
           ELSE IF 5 * a < t THEN "critical"
           ELSE IF 2 * a < t THEN "degraded"
           ELSE "healthy")
     /\ health.source = "getHealth" => a = health.passing

\* C28's case: getHealth on a pool one of whose three keys is available
\* reports 1 of 3, degraded.
C28_Witness ==
  /\ health.source = "getHealth"
  /\ health.availableKeys = 1
  /\ health.totalKeys = 3
  /\ health.status = "degraded"
  /\ breakdownAvailable(ks) = 1

\* C29: at most one processNext loop is alive and at most one call of the
\* caller's function is in flight, and a call in flight is the worker's.
C29_SingleWorker ==
  /\ workers \in {0, 1}
  /\ inFlight \in {0, 1}
  /\ inFlight = 1 => workers = 1
  /\ processing <=> workers = 1

\* C29's case: while a call is in flight the queue was cleared by shutdown
\* and a later execute() queued a request: the worker is still the only one.
C29_Witness ==
  /\ inFlight = 1
  /\ workers = 1
  /\ shut
  /\ exec.req \notin afterShut
  /\ \E i \in 1..Len(queue) : queue[i] \in afterShut

\* C30: a request is handed to the executor only at an instant when it has
\* waited less than its maxWaitMs: one that was in the queue, since its
\* queuedAt; one that execute() queues in the same step, for no time at all.
C30_DispatchedBeforeDeadline ==
  [][dispatchLog' # dispatchLog =>
       \A i \in (Len(dispatchLog) + 1)..Len(dispatchLog') :
         LET r == dispatchLog'[i]
         IN /\ now' = now
            /\ IF InQueue(r)
               THEN now - reqs[r].queuedAt < reqs[r].maxWaitMs
               ELSE 0 < reqs'[r].maxWaitMs]_vars

\* C30's case: a request that waited in the queue while the clock advanced
\* is being run, handed over before its deadline, and another one, found
\* late, was rejected.
C30_Witness ==
  \E r \in ReqIds :
    /\ exec.req = r
    /\ exec.key # NoKey
    /\ Len(exec.calls) = 1
    /\ sel.at > reqs[r].queuedAt
    /\ sel.at - reqs[r].queuedAt < reqs[r].maxWaitMs
    /\ \E r0 \in ReqIds : outcome[r0] = "timeout"

\* The step records a failure for key id: the call made with it ends in an
\* error response or in a throw, and recordFailure counts it.
RecordsFailure(id) ==
  /\ exec.key = id
  /\ CallEnds
  /\ InPool(id)
  /\ faultsLeft' < faultsLeft
  /\ ks'[id].consecutiveFailures = ks[id].consecutiveFailures + 1

\* C31: a failure recorded for a registered key whose circuit is half-open,
\* however half-open was reached, leaves the circuit open with
\* circuitOpenUntil = now + resetTimeoutMs and calls onKeyCircuitOpen once.
C31_HalfOpenFailureOpens ==
  [][\A id \in KeyIds :
       (ks[id].circuitState = "half-open" /\ RecordsFailure(id))
         => /\ ks'[id].circuitState = "open"
            /\ ks'[id].circuitOpenUntil = now + ResetTimeoutMs
            /\ timesFired(ks'[id], "onKeyCircuitOpen") = 1]_vars

\* C32: a failure recorded for a registered key whose circuit is open (and
\* whose reset timer has not run out, so that no lazy transition follows in
\* the same step) only increments consecutiveFailures: the circuit stays
\* open, circuitOpenUntil keeps its value and no hook is called.
C32_OpenFailureOnlyCounts ==
  [][\A id \in KeyIds :
       (/\ ks[id].circuitState = "open"
        /\ now < ks[id].circuitOpenUntil
        /\ RecordsFailure(id))
         => /\ ks'[id].circuitState = "open"
            /\ ks'[id].circuitOpenUntil = ks[id].circuitOpenUntil
            /\ ks'[id].fired = <<>>]_vars

\* C33: for every key, circuitOpenUntil is set exactly when the circuit is
\* open; it is null when the circuit is closed or half-open.
C33_OpenUntilIffOpen ==
  \A id \in KeyIds :
    (ks[id].circuitOpenUntil # NoTime) <=> (ks[id].circuitState = "open")

\* C33's case: the lazy transition has made one circuit half-open and
\* cleared its timer while another circuit is open with its timer running.
C33_Witness ==
  \E id1, id2 \in KeyIds :
    /\ InPool(id1) /\ InPool(id2)
    /\ ks[id1].circuitState = "half-open"
    /\ ks[id1].circuitOpenUntil = NoTime
    /\ ks[id2].circuitState = "open"
    /\ ks[id2].circuitOpenUntil > now

\* C34: a key whose circuit is closed has consecutiveFailures below
\* failureThreshold.
C34_ClosedBelowThreshold ==
  \A id \in KeyIds :
    ks[id].circuitState = "closed"
      => ks[id].consecutiveFailures < FailureThreshold

\* C34's case: a registered key has failed as often as a closed circuit
\* allows, one failure short of the threshold, and its circuit is closed.
C34_Witness ==
  \E id \in KeyIds :
    /\ InPool(id)
    /\ ks[id].circuitState = "closed"
    /\ ks[id].consecutiveFailures > 0
    /\ ks[id].consecutiveFailures = FailureThreshold - 1

\* The positions, counted from the cursor, of the weighted list's keys that
\* are not excluded and pass isKeyAvailable.
Eligible(excluded) ==
  {i \in 0..(Len(buildWeightedList(states)) - 1) :
     LET id == buildWeightedList(states)[
                 (((currentIndex % Len(buildWeightedList(states))) + i)
                    % Len(buildWeightedList(states))) + 1]
     IN id \notin excluded /\ isKeyAvailable(id, ks[id])}

C36_CheckerRunsWhileQueued ==
  queue # <<>> => timeoutChecker

\* C36's case: the checker has rejected a late request, the worker has
\* ended another one, and the checker is running for the requests still in
\* the queue.
C36_Witness ==
  /\ queue # <<>>
  /\ timeoutChecker
  /\ now > 0
  /\ \E r \in ReqIds : outcome[r] = "timeout"
  /\ \E r \in ReqIds : outcome[r] = "resolved"

\* C37: a request that a timeout tick or clear has rejected is not settled
\* again, and the end of a call made for it increments no key's quotaUsed.
C37_NothingForRejected ==
  [][(CallEnds /\ outcome[exec.req] \in {"timeout", "shutdown"})
       => /\ outcome'[exec.req] = outcome[exec.req]
          /\ \A id \in KeyIds : ks'[id].quotaUsed <= ks[id].quotaUsed]_vars

\* C38: the persisted quota counter of a key is loaded before the key is
\* passed to the caller's function: no call is under way with a key whose
\* loadState has yet to write what it read, and the load, when it writes,
\* finds no usage recorded for the key.
C38_AddedKeyLoadedBeforeUse ==
  [][\A id \in KeyIds :
       loading[id] # NoValue
         => /\ exec.key # id
            /\ (loading'[id] = NoValue /\ states' = states)
                 => ks[id].quotaUsed = 0]_vars

\* C39: when isRateLimited or isError throws for a response that neither
\* predicate would flag, the response counts as a success: no failure is
\* recorded for the key and the request is resolved, not rejected with the
\* predicate's error.
C39_PredicateThrowIsFalse ==
  [][(/\ CallEnds
      /\ throwing \cap Predicates # {}
      /\ faultsLeft' = faultsLeft
      /\ outcome[exec.req] = "pending")
       => /\ ks'[exec.key].consecutiveFailures
               <= ks[exec.key].consecutiveFailures
          /\ outcome'[exec.req] # "predicateError"
          /\ outcome'[exec.req] = "resolved"]_vars

\* C40: the KeyStats that getKeyStats returns for a key with a bounded quota
\* are consistent: quotaRemaining = max(0, limit - quotaUsed) and
\* isExhausted exactly when quotaUsed >= limit.
C40_StatsConsistent ==
  (stats.id # NoKey /\ quotaTypeOf(stats.id) # "unlimited")
    => /\ stats.quotaRemaining = Max(0, quotaLimitOf(stats.id) - stats.quotaUsed)
       /\ stats.isExhausted <=> (stats.quotaUsed >= quotaLimitOf(stats.id))

=============================================================================
